---------------------------- MODULE Spec2Model ----------------------------
(***************************************************************************)
(* A model of nazari63/circleci-utils:                                     *)
(*   - github_cli/commands.py: the stale-issue / stale-PR policy           *)
(*     (process_issues, process_pull_requests, is_stale) and the comment   *)
(*     utilities (post_pr_comment, delete_pr_comment);                     *)
(*   - github_cli/main.py: the commands of the CLI, their checks of the    *)
(*     options and their exit codes;                                       *)
(*   - repository_audit/github_actions_audit.py: the repository            *)
(*     enumerator, the workflow file locator, the Actions-permission       *)
(*     resolver and the report loop.                                       *)
(* The GitHub API is the environment: every request may fail, and every    *)
(* response is drawn from a small set.                                     *)
(***************************************************************************)
EXTENDS Integers, Sequences, FiniteSets, TLC

VARIABLES
    \* ---- stale policy (commands.py) ----
    kind,               \* "issues": process_issues, "prs": process_pull_requests
    items,              \* the remote issues / PRs of the repository, in listing order
    days_before_stale,  \* parameter
    days_before_close,  \* parameter
    exempt_arg,         \* the --exempt-labels string of the CLI, as a sequence of tokens
    listing,            \* the open items the running loop iterates (indices into items)
    idx,                \* position of the loop in listing
    visited,            \* what the current run did to each item it has visited
    run_status,         \* "idle" | "running" | "done" | "raised"
    \* ---- comment utilities (commands.py) ----
    comment_store,      \* the issue comments of the repository: id -> [pr, body]
    c_args,             \* the arguments of the last call
    c_pre,              \* comment_store when the last call was made
    c_result,           \* how the last call ended
    c_calls,            \* the API calls the last call made
    \* ---- Actions-permission resolver (github_actions_audit.py) ----
    cae_env,            \* what GitHub answers to each request of the last call
    cae_out,            \* how the last call of check_actions_enabled ended
    \* ---- workflow file locator (github_actions_audit.py) ----
    wf_listing,         \* the response to the directory listing of the last call
    wf_out,             \* what the last call of get_workflow_files gave
    \* ---- repository enumerator (github_actions_audit.py) ----
    page,               \* get_repositories: the page to request next
    repos,              \* get_repositories: the repositories collected so far
    gr_status,          \* "idle" | "paging" | "returned" | "raised"
    gr_responses,       \* the responses received, in order
    gr_requests,        \* the page numbers requested, in order
    gr_result,          \* the list get_repositories returned
    \* ---- report loop (github_actions_audit.py) ----
    repositories,       \* process_repositories: its argument
    pos,                \* the repository the loop is at
    results,            \* the rows built so far
    audited,            \* per repository visited: the responses and both calls' outcomes
    pr_status,          \* "idle" | "processing" | "returned" | "raised"
    \* ---- command line (main.py) ----
    cli_cmd,            \* the last command run and its options
    cli_exit,           \* its exit code
    cli_out,            \* what it printed on standard output
    cli_calls           \* the GitHub API calls it made

staleVars == <<kind, items, days_before_stale, days_before_close, exempt_arg,
               listing, idx, visited, run_status>>

commentVars == <<comment_store, c_args, c_pre, c_result, c_calls>>

permVars == <<cae_env, cae_out>>

wfVars == <<wf_listing, wf_out>>

reposVars == <<page, repos, gr_status, gr_responses, gr_requests, gr_result>>

auditVars == <<repositories, pos, results, audited, pr_status>>

cliVars == <<cli_cmd, cli_exit, cli_out, cli_calls>>

vars == <<staleVars, commentVars, permVars, wfVars, reposVars, auditVars, cliVars>>

-----------------------------------------------------------------------------
(* Bounds of the model *)

MaxItems == 2       \* items in the repository
MaxElapsed == 1     \* the newest item is 0 days old, the oldest MaxElapsed days
MaxCommentId == 2   \* comment ids are 1..MaxCommentId
MaxFiles == 2       \* entries of a .github/workflows listing
MaxPages == 2       \* non-empty pages of the organization's repository list
MaxRepos == 2       \* repositories handed to process_repositories

-----------------------------------------------------------------------------
(* Sequence helpers *)

Range(s) == {s[i] : i \in 1..Len(s)}

SeqsUpTo(S, n) == UNION {[1..k -> S] : k \in 0..n}

-----------------------------------------------------------------------------
(* Stale policy: commands.py *)

stale_issue_label == "S-stale"
ExemptLabel == "S-exempt-stale"
OtherLabel == "wip"

\* datetime.now(timezone.utc), in whole days
now == MaxElapsed

\* A variant of is_stale with > in place of >=
is_stale_gt(updated_at, days) ==
    LET days_since_update == now - updated_at
    IN  days_since_update > days

\* is_stale(updated_at, days_before_stale); timestamps are in whole days
is_stale(updated_at, days) ==
    LET days_since_update == now - updated_at
    IN  days_since_update >= days

\* str.split(","): the segments between the commas, nothing stripped
RECURSIVE Split(_)
Split(s) ==
    IF \A i \in 1..Len(s) : s[i] # ","
    THEN <<s>>
    ELSE LET i == CHOOSE j \in 1..Len(s) :
                      s[j] = "," /\ \A k \in 1..(j - 1) : s[k] # ","
         IN  <<SubSeq(s, 1, i - 1)>> \o Split(SubSeq(s, i + 1, Len(s)))

\* exempt_labels.split(",") of cli_process_pull_requests
exempt_labels == Split(exempt_arg)

\* label.name in exempt_labels: a label name is one token
InExempt(name) == \E i \in 1..Len(exempt_labels) : exempt_labels[i] = <<name>>

\* One API call of an item's processing: what was called and whether it raised
Call(name, ok) == [name |-> name, ok |-> ok]

\* A variant of IssueStep that tests the close threshold before the label
IssueStepCloseAtOnce(it, fail) ==
    LET ok == (fail = 0) IN
    IF it.pull_request
    THEN [item |-> it, calls |-> <<>>]
    ELSE IF is_stale(it.updated_at, days_before_stale)
         THEN IF is_stale(it.updated_at, days_before_stale + days_before_close)
              THEN [item |-> IF ok THEN [it EXCEPT !.state = "closed"] ELSE it,
                    calls |-> <<Call("edit_closed", ok)>>]
              ELSE IF stale_issue_label \notin it.labels
                   THEN [item |-> IF ok
                                  THEN [it EXCEPT !.labels = @ \cup {stale_issue_label}]
                                  ELSE it,
                         calls |-> <<Call("add_to_labels", ok)>>]
                   ELSE [item |-> it, calls |-> <<>>]
         ELSE [item |-> it, calls |-> <<>>]

\* A variant of IssueStep without the test of issue.pull_request
IssueStepNoSkip(it, fail) ==
    LET ok == (fail = 0) IN
    IF is_stale(it.updated_at, days_before_stale)
    THEN IF stale_issue_label \notin it.labels
         THEN [item |-> IF ok
                        THEN [it EXCEPT !.labels = @ \cup {stale_issue_label}]
                        ELSE it,
               calls |-> <<Call("add_to_labels", ok)>>]
         ELSE IF is_stale(it.updated_at, days_before_stale + days_before_close)
              THEN [item |-> IF ok THEN [it EXCEPT !.state = "closed"] ELSE it,
                    calls |-> <<Call("edit_closed", ok)>>]
              ELSE [item |-> it, calls |-> <<>>]
    ELSE [item |-> it, calls |-> <<>>]

\* The body of the loop of process_issues for one issue (lines 134-153).
\* fail: the number of the API call of this body that raises (0: none does).
\* Gives the item afterwards and the calls made; an exception ends the body
\* (except Exception ... continue).
IssueStep(it, fail) ==
    LET ok == (fail = 0) IN
    IF it.pull_request
    THEN [item |-> it, calls |-> <<>>]
    ELSE IF is_stale(it.updated_at, days_before_stale)
         THEN IF stale_issue_label \notin it.labels
              THEN [item |-> IF ok
                             THEN [it EXCEPT !.labels = @ \cup {stale_issue_label}]
                             ELSE it,
                    calls |-> <<Call("add_to_labels", ok)>>]
              ELSE IF is_stale(it.updated_at, days_before_stale + days_before_close)
                   THEN [item |-> IF ok THEN [it EXCEPT !.state = "closed"] ELSE it,
                         calls |-> <<Call("edit_closed", ok)>>]
                   ELSE [item |-> it, calls |-> <<>>]
         ELSE [item |-> it, calls |-> <<>>]

\* A variant of HasExemptLabel with all() in place of any()
HasExemptLabelAll(pr) == pr.labels # {} /\ \A l \in pr.labels : InExempt(l)

\* any(label.name in exempt_labels for label in pr.labels)
HasExemptLabel(pr) == \E l \in pr.labels : InExempt(l)

\* Marking a PR stale (lines 183-184): as_issue() fetches the issue, then the
\* label is added, then the comment is posted; the first call that raises
\* ends the body.
MarkPullRequestStale(pr, fail) ==
    LET labelled == [pr EXCEPT !.labels = @ \cup {stale_issue_label}]
        commented == [labelled EXCEPT !.comments = @ + 1]
    IN  CASE fail = 1 -> [item |-> pr, calls |-> <<Call("as_issue", FALSE)>>]
          [] fail = 2 -> [item |-> pr,
                          calls |-> <<Call("as_issue", TRUE),
                                      Call("add_to_labels", FALSE)>>]
          [] fail = 3 -> [item |-> labelled,
                          calls |-> <<Call("as_issue", TRUE),
                                      Call("add_to_labels", TRUE),
                                      Call("create_issue_comment", FALSE)>>]
          [] OTHER    -> [item |-> commented,
                          calls |-> <<Call("as_issue", TRUE),
                                      Call("add_to_labels", TRUE),
                                      Call("create_issue_comment", TRUE)>>]

\* The body of the loop of process_pull_requests for one PR (lines 172-192)
PullRequestStep(pr, fail) ==
    IF HasExemptLabel(pr)
    THEN [item |-> pr, calls |-> <<>>]
    ELSE IF is_stale(pr.updated_at, days_before_stale)
         THEN IF stale_issue_label \notin pr.labels
              THEN MarkPullRequestStale(pr, fail)
              ELSE IF is_stale(pr.updated_at, days_before_stale + days_before_close)
                   THEN [item |-> IF fail = 0 THEN [pr EXCEPT !.state = "closed"] ELSE pr,
                         calls |-> <<Call("edit_closed", fail = 0)>>]
                   ELSE [item |-> pr, calls |-> <<>>]
         ELSE [item |-> pr, calls |-> <<>>]

\* A variant of AfterItem without the except clause: an exception raised in
\* the body ends the run
AfterItemNoCatch(calls) ==
    IF \E k \in 1..Len(calls) : ~calls[k].ok THEN "raised" ELSE "running"

\* except Exception as e: print(...); continue (lines 151-153, 190-192): an
\* exception raised in the body is caught and the loop goes on
AfterItem(calls) == "running"

\* The number of API calls the body of the loop can make for one item
MaxCallsPerItem == IF kind = "issues" THEN 1 ELSE 3

\* Inputs of the stale policy
DaysBeforeStaleVals == {1, 2}
DaysBeforeCloseVals == {-1, 0, 1}
ExemptArgs == { <<ExemptLabel>>,
                <<" ", OtherLabel, ",", ExemptLabel>> }

IssueItems ==
    [pull_request : BOOLEAN, updated_at : 0..MaxElapsed,
     labels : SUBSET {stale_issue_label}, state : {"open"}, comments : {0}]

PullRequestItems ==
    [pull_request : {TRUE}, updated_at : 0..MaxElapsed,
     labels : SUBSET {stale_issue_label, ExemptLabel}, state : {"open"}, comments : {0}]

\* No comment utility is in use
NoArgs == [op |-> "none", repo |-> "", pr_number |-> 0, comment_body |-> "",
           comment_id |-> {}]

IdleComment ==
    /\ comment_store = <<>>
    /\ c_args = NoArgs
    /\ c_pre = <<>>
    /\ c_result = "none"
    /\ c_calls = <<>>

IdlePerm ==
    /\ cae_env = <<>>
    /\ cae_out = <<>>

IdleWorkflows ==
    /\ wf_listing = <<>>
    /\ wf_out = <<>>

IdleRepos ==
    /\ page = 0
    /\ repos = <<>>
    /\ gr_status = "idle"
    /\ gr_responses = <<>>
    /\ gr_requests = <<>>
    /\ gr_result = <<>>

IdleAudit ==
    /\ repositories = <<>>
    /\ pos = 0
    /\ results = <<>>
    /\ audited = <<>>
    /\ pr_status = "idle"

\* No command has been run
NoCommand == [cmd |-> "none"]

IdleCli ==
    /\ cli_cmd = NoCommand
    /\ cli_exit = -1
    /\ cli_out = ""
    /\ cli_calls = <<>>

InitStale ==
    /\ IdleCli
    /\ IdleComment
    /\ IdlePerm
    /\ IdleWorkflows
    /\ IdleRepos
    /\ IdleAudit
    /\ kind \in {"issues", "prs"}
    /\ items \in SeqsUpTo(IF kind = "issues" THEN IssueItems ELSE PullRequestItems,
                          MaxItems)
    /\ days_before_stale \in DaysBeforeStaleVals
    /\ days_before_close \in DaysBeforeCloseVals
    /\ exempt_arg \in (IF kind = "issues" THEN {<<ExemptLabel>>} ELSE ExemptArgs)
    /\ listing = <<>>
    /\ idx = 0
    /\ visited = <<>>
    /\ run_status = "idle"

\* repository.get_issues(state="open") / repository.get_pulls(state="open"):
\* the open items, in listing order
RECURSIVE OpenItems(_)
OpenItems(n) ==
    IF n = 0 THEN <<>>
    ELSE IF items[n].state = "open" THEN Append(OpenItems(n - 1), n)
         ELSE OpenItems(n - 1)

\* process_issues / process_pull_requests up to the loop (lines 128-131,
\* 166-169): get_repo and the listing, outside any try
StartRun ==
    /\ run_status # "running"
    /\ \E ok \in BOOLEAN :
          IF ok
          THEN /\ listing' = OpenItems(Len(items))
               /\ idx' = 1
               /\ run_status' = "running"
          ELSE /\ listing' = <<>>
               /\ idx' = 0
               /\ run_status' = "raised"
    /\ visited' = <<>>
    /\ UNCHANGED <<kind, items, days_before_stale, days_before_close, exempt_arg>>
    /\ UNCHANGED <<commentVars, permVars, wfVars, reposVars, auditVars, cliVars>>

\* One iteration of the loop of process_issues (lines 133-153)
ProcessIssue ==
    /\ kind = "issues"
    /\ run_status = "running"
    /\ idx <= Len(listing)
    /\ \E fail \in 0..MaxCallsPerItem :
          LET n == listing[idx]
              r == IssueStep(items[n], fail)
          IN  /\ items' = [items EXCEPT ![n] = r.item]
              /\ visited' = Append(visited, [n |-> n, pre |-> items[n], calls |-> r.calls])
              /\ run_status' = AfterItem(r.calls)
    /\ idx' = idx + 1
    /\ UNCHANGED <<kind, days_before_stale, days_before_close, exempt_arg, listing>>
    /\ UNCHANGED <<commentVars, permVars, wfVars, reposVars, auditVars, cliVars>>

\* One iteration of the loop of process_pull_requests (lines 171-192)
ProcessPullRequest ==
    /\ kind = "prs"
    /\ run_status = "running"
    /\ idx <= Len(listing)
    /\ \E fail \in 0..MaxCallsPerItem :
          LET n == listing[idx]
              r == PullRequestStep(items[n], fail)
          IN  /\ items' = [items EXCEPT ![n] = r.item]
              /\ visited' = Append(visited, [n |-> n, pre |-> items[n], calls |-> r.calls])
              /\ run_status' = AfterItem(r.calls)
    /\ idx' = idx + 1
    /\ UNCHANGED <<kind, days_before_stale, days_before_close, exempt_arg, listing>>
    /\ UNCHANGED <<commentVars, permVars, wfVars, reposVars, auditVars, cliVars>>

\* The loop is exhausted: the function returns
FinishRun ==
    /\ run_status = "running"
    /\ idx > Len(listing)
    /\ run_status' = "done"
    /\ UNCHANGED <<kind, items, days_before_stale, days_before_close, exempt_arg,
                   listing, idx, visited>>
    /\ UNCHANGED <<commentVars, permVars, wfVars, reposVars, auditVars, cliVars>>

NextStale == StartRun \/ ProcessIssue \/ ProcessPullRequest \/ FinishRun

SpecStale == InitStale /\ [][NextStale]_vars

\* No API call of the current run has failed
NoFailure ==
    /\ run_status # "raised"
    /\ \A k \in 1..Len(visited) :
          \A c \in 1..Len(visited[k].calls) : visited[k].calls[c].ok

\* The runs in which GitHub answers every call
NextStaleReliable ==
    \/ StartRun /\ NoFailure'
    \/ ProcessIssue /\ NoFailure'
    \/ ProcessPullRequest /\ NoFailure'
    \/ FinishRun

\* The policy is run again and again (a scheduled job), and each run goes
\* through its listing
SpecStaleReliable ==
    InitStale /\ [][NextStaleReliable]_vars /\ WF_vars(NextStaleReliable)

-----------------------------------------------------------------------------
(* Comment utilities: commands.py *)

\* The repository and the pull request that exist on GitHub
TheRepo == "owner/repo"
ThePull == 1

\* Python truthiness of an Optional[int]: None (the empty set) and 0 are falsy
Truthy(comment_id) == comment_id # {} /\ comment_id # {0}

\* for comment in comments: if comment.id == comment_id (first match)
Matching(store, comment_id) == {id \in DOMAIN store : comment_id = {id}}

\* GitHub gives a new comment an id no comment of the repository has
NewCommentId(store) ==
    IF DOMAIN store = {} THEN 1
    ELSE (CHOOSE m \in DOMAIN store : \A i \in DOMAIN store : i <= m) + 1

WithNewComment(store, pr, body) ==
    [i \in DOMAIN store \cup {NewCommentId(store)} |->
        IF i \in DOMAIN store THEN store[i] ELSE [pr |-> pr, body |-> body]]

Outcome(store, result, calls) == [store |-> store, result |-> result, calls |-> calls]

\* post_pr_comment (lines 43-70).  fail: the number of the API call that
\* raises (0: none).  result: "posted" / "updated" are the returned messages,
\* "None" is falling off the end of the function, "ValueError" and
\* "GithubException" are exceptions raised to the caller.
post_pr_comment(store, a, fail) ==
    IF a.repo = "" \/ a.pr_number = 0 \/ a.comment_body = ""
    THEN Outcome(store, "ValueError", <<>>)
    ELSE IF a.repo # TheRepo \/ fail = 1
    THEN Outcome(store, "GithubException", <<"get_repo">>)
    ELSE IF a.pr_number # ThePull \/ fail = 2
    THEN Outcome(store, "GithubException", <<"get_repo", "get_pull">>)
    ELSE IF Truthy(a.comment_id)
    THEN IF fail = 3
         THEN Outcome(store, "ValueError",
                      <<"get_repo", "get_pull", "get_issues_comments">>)
         ELSE IF Matching(store, a.comment_id) # {}
         THEN LET id == CHOOSE i \in Matching(store, a.comment_id) : TRUE
              IN  IF fail = 4
                  THEN Outcome(store, "ValueError",
                               <<"get_repo", "get_pull", "get_issues_comments", "edit">>)
                  ELSE Outcome([store EXCEPT ![id].body = a.comment_body], "updated",
                               <<"get_repo", "get_pull", "get_issues_comments", "edit">>)
         ELSE Outcome(store, "None", <<"get_repo", "get_pull", "get_issues_comments">>)
    ELSE IF fail = 3
         THEN Outcome(store, "GithubException",
                      <<"get_repo", "get_pull", "create_issue_comment">>)
         ELSE Outcome(WithNewComment(store, a.pr_number, a.comment_body),
                      "posted", <<"get_repo", "get_pull", "create_issue_comment">>)

\* delete_pr_comment (lines 73-94), as post_pr_comment
delete_pr_comment(store, a, fail) ==
    IF a.repo = "" \/ a.pr_number = 0 \/ ~Truthy(a.comment_id)
    THEN Outcome(store, "ValueError", <<>>)
    ELSE IF a.repo # TheRepo \/ fail = 1
    THEN Outcome(store, "GithubException", <<"get_repo">>)
    ELSE IF a.pr_number # ThePull \/ fail = 2
    THEN Outcome(store, "GithubException", <<"get_repo", "get_pull">>)
    ELSE IF fail = 3
    THEN Outcome(store, "ValueError", <<"get_repo", "get_pull", "get_issues_comments">>)
    ELSE IF Matching(store, a.comment_id) # {}
    THEN LET id == CHOOSE i \in Matching(store, a.comment_id) : TRUE
         IN  IF fail = 4
             THEN Outcome(store, "ValueError",
                          <<"get_repo", "get_pull", "get_issues_comments", "delete">>)
             ELSE Outcome([i \in DOMAIN store \ {id} |-> store[i]], "deleted",
                          <<"get_repo", "get_pull", "get_issues_comments", "delete">>)
    ELSE Outcome(store, "None", <<"get_repo", "get_pull", "get_issues_comments">>)

Raised(result) == result \in {"ValueError", "GithubException"}

\* Inputs of the comment utilities
RepoArgs == {"", TheRepo, "norepo"}
PullArgs == {0, ThePull, ThePull + 1}
BodyArgs == {"", "second"}
CommentIdArgs == {{}} \cup {{i} : i \in 0..(MaxCommentId + 1)}

\* The comments of the repository: ids 1..n, on any PR
CommentStores == SeqsUpTo([pr : {ThePull, ThePull + 1}, body : {"first"}], MaxCommentId)

IdleStale ==
    /\ kind = "none"
    /\ items = <<>>
    /\ days_before_stale = 0
    /\ days_before_close = 0
    /\ exempt_arg = <<>>
    /\ listing = <<>>
    /\ idx = 0
    /\ visited = <<>>
    /\ run_status = "idle"

InitComment ==
    /\ IdleCli
    /\ IdleStale
    /\ IdlePerm
    /\ IdleWorkflows
    /\ IdleRepos
    /\ IdleAudit
    /\ comment_store \in CommentStores
    /\ c_args = NoArgs
    /\ c_pre = comment_store
    /\ c_result = "none"
    /\ c_calls = <<>>

\* A call of post_pr_comment
PostPrComment ==
    /\ \E repo \in RepoArgs, pr_number \in PullArgs, comment_body \in BodyArgs,
          comment_id \in CommentIdArgs, fail \in 0..4 :
          LET a == [op |-> "post_pr_comment", repo |-> repo, pr_number |-> pr_number,
                    comment_body |-> comment_body, comment_id |-> comment_id]
              r == post_pr_comment(comment_store, a, fail)
          IN  /\ DOMAIN r.store \subseteq 1..MaxCommentId
              /\ c_args' = a
              /\ c_pre' = comment_store
              /\ comment_store' = r.store
              /\ c_result' = r.result
              /\ c_calls' = r.calls
    /\ UNCHANGED <<staleVars, permVars, wfVars, reposVars, auditVars, cliVars>>

\* A call of delete_pr_comment
DeletePrComment ==
    /\ \E repo \in RepoArgs, pr_number \in PullArgs, comment_id \in CommentIdArgs,
          fail \in 0..4 :
          LET a == [op |-> "delete_pr_comment", repo |-> repo, pr_number |-> pr_number,
                    comment_body |-> "", comment_id |-> comment_id]
              r == delete_pr_comment(comment_store, a, fail)
          IN  /\ c_args' = a
              /\ c_pre' = comment_store
              /\ comment_store' = r.store
              /\ c_result' = r.result
              /\ c_calls' = r.calls
    /\ UNCHANGED <<staleVars, permVars, wfVars, reposVars, auditVars, cliVars>>

NextComment == PostPrComment \/ DeletePrComment

SpecComment == InitComment /\ [][NextComment]_vars

-----------------------------------------------------------------------------
(* Command line: main.py.  One run of the tool is one command. *)

\* get_github_client (lines 36-50): without a token the command ends with
\* typer.Exit(code=1) before a client exists
HasToken(github_token) == github_token # ""

\* How a command ended: the comments of the repository afterwards, the exit
\* code, the text on standard output, the API calls made and how the library
\* function ended ("none": it was not called)
Ended(store, exit, out, calls, lib) ==
    [store |-> store, exit |-> exit, out |-> out, calls |-> calls, lib |-> lib]

\* except Exception as e: typer.echo(f"Error: {e}", err=True); raise
\* typer.Exit(code=1) -- the clause every command ends with; a command that
\* returns exits with 0
ExitCode(result) == IF Raised(result) THEN 1 ELSE 0

\* typer.echo(result): only reached when the library function returned
Echoed(result) == IF Raised(result) THEN "" ELSE result

\* cli_post_pr_comment (lines 182-206)
cli_post_pr_comment(store, o, fail) ==
    IF ~HasToken(o.github_token)
    THEN Ended(store, 1, "", <<>>, "none")
    ELSE LET r == post_pr_comment(store, o, fail)
         IN  Ended(r.store, ExitCode(r.result), Echoed(r.result), r.calls, r.result)

\* cli_delete_pr_comment (lines 209-232)
cli_delete_pr_comment(store, o, fail) ==
    IF ~HasToken(o.github_token)
    THEN Ended(store, 1, "", <<>>, "none")
    ELSE LET r == delete_pr_comment(store, o, fail)
         IN  Ended(r.store, ExitCode(r.result), Echoed(r.result), r.calls, r.result)

\* create_issue_from_string (commands.py, lines 8-40).  The labels and the
\* assignees are optional and are handed on to create_issue.
create_issue_from_string(store, o, fail) ==
    IF o.repo = "" \/ o.issue_title = "" \/ o.issue_body = ""
    THEN Outcome(store, "ValueError", <<>>)
    ELSE IF o.repo # TheRepo \/ fail = 1
    THEN Outcome(store, "GithubException", <<"get_repo">>)
    ELSE IF fail = 2
    THEN Outcome(store, "GithubException", <<"get_repo", "create_issue">>)
    ELSE Outcome(store, "created", <<"get_repo", "create_issue">>)

\* cli_create_issue_from_string (lines 150-179)
cli_create_issue_from_string(store, o, fail) ==
    IF ~HasToken(o.github_token)
    THEN Ended(store, 1, "", <<>>, "none")
    ELSE LET r == create_issue_from_string(store, o, fail)
         IN  Ended(r.store, ExitCode(r.result), Echoed(r.result), r.calls, r.result)

\* file.read().strip()
Strip(text) == IF text = " " THEN "" ELSE text

\* cli_create_issue_from_file (lines 106-147): the file is read before the
\* client is made
cli_create_issue_from_file(store, o, fail) ==
    IF ~o.file.exists
    THEN Ended(store, 1, "", <<>>, "none")
    ELSE IF Strip(o.file.text) = ""
    THEN Ended(store, 1, "", <<>>, "none")
    ELSE cli_create_issue_from_string(
             store, [o EXCEPT !.issue_body = Strip(o.file.text)], fail)

\* repo.split("/") on the repository strings of the model
SplitRepo(repo) == IF repo = TheRepo THEN <<"owner", "repo">> ELSE <<repo>>

\* get_github_acces_token (lines 53-103).  installed: the App is installed on
\* the repository.  An exception leaves the command uncaught: exit code 1.
get_github_acces_token(store, o, installed, fail) ==
    IF o.app_id = 0 \/ o.private_key_str = "" \/ o.repo = ""
    THEN Ended(store, 1, "", <<>>, "none")
    ELSE IF Len(SplitRepo(o.repo)) # 2
    THEN Ended(store, 1, "", <<>>, "ValueError")
    ELSE IF fail = 1
    THEN Ended(store, 1, "", <<"get_repo_installation">>, "GithubException")
    ELSE IF ~installed
    THEN Ended(store, 1, "", <<"get_repo_installation">>, "ValueError")
    ELSE IF fail = 2
    THEN Ended(store, 1, "", <<"get_repo_installation", "get_access_token">>,
               "GithubException")
    ELSE Ended(store, 0, "token", <<"get_repo_installation", "get_access_token">>,
               "token")

\* Options of the commands
TokenArgs == {"", "ghp"}
TitleArgs == {"", "title"}
FileArgs == [exists : BOOLEAN, text : {"", " ", "text"}]
AppIdArgs == {0, 7}
KeyArgs == {"", "pem"}

InitCli ==
    /\ IdleStale
    /\ IdlePerm
    /\ IdleWorkflows
    /\ IdleRepos
    /\ IdleAudit
    /\ comment_store \in CommentStores
    /\ c_args = NoArgs
    /\ c_pre = comment_store
    /\ c_result = "none"
    /\ c_calls = <<>>
    /\ cli_cmd = NoCommand
    /\ cli_exit = -1
    /\ cli_out = ""
    /\ cli_calls = <<>>

\* The command o ended as e
Finish(o, e) ==
    /\ DOMAIN e.store \subseteq 1..MaxCommentId
    /\ cli_cmd' = o
    /\ cli_exit' = e.exit
    /\ cli_out' = e.out
    /\ cli_calls' = e.calls
    /\ comment_store' = e.store
    /\ c_pre' = comment_store
    /\ c_result' = e.lib
    /\ c_calls' = e.calls
    /\ UNCHANGED <<staleVars, permVars, wfVars, reposVars, auditVars>>

\* post-pr-comment
CliPostPrComment ==
    /\ cli_cmd = NoCommand
    /\ \E github_token \in TokenArgs, repo \in RepoArgs, pr_number \in PullArgs,
          comment_body \in BodyArgs, comment_id \in CommentIdArgs, fail \in 0..4 :
          LET o == [cmd |-> "post-pr-comment", github_token |-> github_token,
                    repo |-> repo, pr_number |-> pr_number,
                    comment_body |-> comment_body, comment_id |-> comment_id]
          IN  /\ Finish(o, cli_post_pr_comment(comment_store, o, fail))
              /\ c_args' = [op |-> "post_pr_comment", repo |-> repo,
                            pr_number |-> pr_number, comment_body |-> comment_body,
                            comment_id |-> comment_id]

\* delete-pr-comment
CliDeletePrComment ==
    /\ cli_cmd = NoCommand
    /\ \E github_token \in TokenArgs, repo \in RepoArgs, pr_number \in PullArgs,
          comment_id \in CommentIdArgs, fail \in 0..4 :
          LET o == [cmd |-> "delete-pr-comment", github_token |-> github_token,
                    repo |-> repo, pr_number |-> pr_number, comment_id |-> comment_id]
          IN  /\ Finish(o, cli_delete_pr_comment(comment_store, o, fail))
              /\ c_args' = [op |-> "delete_pr_comment", repo |-> repo,
                            pr_number |-> pr_number, comment_body |-> "",
                            comment_id |-> comment_id]

\* create-issue-from-string
CliCreateIssueFromString ==
    /\ cli_cmd = NoCommand
    /\ \E github_token \in TokenArgs, repo \in RepoArgs, issue_title \in TitleArgs,
          issue_body \in BodyArgs, fail \in 0..2 :
          LET o == [cmd |-> "create-issue-from-string", github_token |-> github_token,
                    repo |-> repo, issue_title |-> issue_title,
                    issue_body |-> issue_body]
          IN  /\ Finish(o, cli_create_issue_from_string(comment_store, o, fail))
              /\ c_args' = NoArgs

\* create-issue-from-file
CliCreateIssueFromFile ==
    /\ cli_cmd = NoCommand
    /\ \E github_token \in TokenArgs, repo \in RepoArgs, issue_title \in TitleArgs,
          file \in FileArgs, fail \in 0..2 :
          LET o == [cmd |-> "create-issue-from-file", github_token |-> github_token,
                    repo |-> repo, issue_title |-> issue_title, file |-> file,
                    issue_body |-> ""]
          IN  /\ Finish(o, cli_create_issue_from_file(comment_store, o, fail))
              /\ c_args' = NoArgs

\* get-github-access-token
CliGetGithubAccessToken ==
    /\ cli_cmd = NoCommand
    /\ \E app_id \in AppIdArgs, private_key_str \in KeyArgs, repo \in RepoArgs,
          installed \in BOOLEAN, fail \in 0..2 :
          LET o == [cmd |-> "get-github-access-token", app_id |-> app_id,
                    private_key_str |-> private_key_str, repo |-> repo,
                    installed |-> installed]
          IN  /\ Finish(o, get_github_acces_token(comment_store, o, installed, fail))
              /\ c_args' = NoArgs

NextCli ==
    \/ CliPostPrComment
    \/ CliDeletePrComment
    \/ CliCreateIssueFromString
    \/ CliCreateIssueFromFile
    \/ CliGetGithubAccessToken

SpecCli == InitCli /\ [][NextCli]_vars

-----------------------------------------------------------------------------
(* HTTP responses: github_actions_audit.py talks to the API with requests *)

\* requests.get raised (no response at all: connection error, timeout)
NoResponse == [raises |-> TRUE, status |-> 0, json |-> <<>>]

Response(status, json) == [raises |-> FALSE, status |-> status, json |-> json]

\* dict.get(key, default)
Get(json, key, default) == IF key \in DOMAIN json THEN json[key] ELSE default

\* dict.update(other)
Update(d, u) ==
    [k \in DOMAIN d \cup DOMAIN u |-> IF k \in DOMAIN u THEN u[k] ELSE d[k]]

\* response.raise_for_status() raises: requests raises HTTPError for 4xx and 5xx
RaisesForStatus(r) == r.status >= 400 /\ r.status < 600

-----------------------------------------------------------------------------
(* Actions-permission resolver: GitHubActionsAudit.check_actions_enabled *)

Returned(result, calls) == [raised |-> FALSE, result |-> result, calls |-> calls]

Propagated(calls) == [raised |-> TRUE, result |-> <<>>, calls |-> calls]

\* A variant of WorkflowPermissions that reports disabled when the call does
\* not answer 200
WorkflowPermissionsOrDisabled(env, result, calls) ==
    IF result.enabled
    THEN IF env.workflow.raises
         THEN Propagated(Append(calls, "permissions/workflow"))
         ELSE IF env.workflow.status = 200
              THEN Returned(
                     Update(result,
                       [default_workflow_permissions |->
                            Get(env.workflow.json, "default_workflow_permissions", "None"),
                        can_approve_pull_request_reviews |->
                            Get(env.workflow.json, "can_approve_pull_request_reviews",
                                FALSE)]),
                     Append(calls, "permissions/workflow"))
              ELSE Returned(Update(result, [enabled |-> FALSE, status |-> "disabled"]),
                            Append(calls, "permissions/workflow"))
    ELSE Returned(result, calls)

\* Lines 155-168: the default workflow permissions, fetched only when enabled
WorkflowPermissions(env, result, calls) ==
    IF result.enabled
    THEN IF env.workflow.raises
         THEN Propagated(Append(calls, "permissions/workflow"))
         ELSE IF env.workflow.status = 200
              THEN Returned(
                     Update(result,
                       [default_workflow_permissions |->
                            Get(env.workflow.json, "default_workflow_permissions", "None"),
                        can_approve_pull_request_reviews |->
                            Get(env.workflow.json, "can_approve_pull_request_reviews",
                                FALSE)]),
                     Append(calls, "permissions/workflow"))
              ELSE Returned(result, Append(calls, "permissions/workflow"))
    ELSE Returned(result, calls)

\* A variant of ForkBranch that reports the base permissions alone
ForkBranchBaseOnly(env, result) ==
    LET calls1 == <<"repo", "permissions">>
        calls2 == <<"repo", "permissions", "permissions/workflows/fork-pull-requests">>
    IN  IF env.permissions.raises
        THEN Propagated(calls1)
        ELSE IF env.permissions.status = 200
        THEN LET workflows_enabled == Get(env.permissions.json, "enabled", FALSE)
             IN  IF env.fork.raises
                 THEN Propagated(calls2)
                 ELSE IF env.fork.status = 200
                 THEN LET fork_workflows_enabled == Get(env.fork.json, "enabled", FALSE)
                      IN  WorkflowPermissions(env,
                            Update(result,
                              [enabled |-> workflows_enabled,
                               status |-> IF workflows_enabled
                                          THEN "enabled" ELSE "disabled",
                               fork_status |-> IF fork_workflows_enabled
                                               THEN "workflows enabled"
                                               ELSE "workflows disabled (fork)",
                               allowed_actions |->
                                   Get(env.permissions.json, "allowed_actions", "none")]),
                            calls2)
                 ELSE WorkflowPermissions(env,
                        Update(result, [fork_status |-> "workflows disabled (fork)",
                                        enabled |-> workflows_enabled,
                                        status |-> IF workflows_enabled
                                                   THEN "enabled" ELSE "disabled"]),
                        calls2)
        ELSE WorkflowPermissions(env, result, calls1)

\* Lines 112-140: the fork branch
ForkBranch(env, result) ==
    LET calls1 == <<"repo", "permissions">>
        calls2 == <<"repo", "permissions", "permissions/workflows/fork-pull-requests">>
    IN  IF env.permissions.raises
        THEN Propagated(calls1)
        ELSE IF env.permissions.status = 200
        THEN LET workflows_enabled == Get(env.permissions.json, "enabled", FALSE)
             IN  IF env.fork.raises
                 THEN Propagated(calls2)
                 ELSE IF env.fork.status = 200
                 THEN LET fork_workflows_enabled == Get(env.fork.json, "enabled", FALSE)
                          both == workflows_enabled /\ fork_workflows_enabled
                      IN  WorkflowPermissions(env,
                            Update(result,
                              [enabled |-> both,
                               status |-> IF both THEN "enabled" ELSE "disabled",
                               fork_status |-> IF fork_workflows_enabled
                                               THEN "workflows enabled"
                                               ELSE "workflows disabled (fork)",
                               allowed_actions |->
                                   Get(env.permissions.json, "allowed_actions", "none")]),
                            calls2)
                 ELSE WorkflowPermissions(env,
                        Update(result, [fork_status |-> "workflows disabled (fork)",
                                        enabled |-> FALSE,
                                        status |-> "disabled"]),
                        calls2)
        ELSE WorkflowPermissions(env, result, calls1)

\* A variant of PlainBranch that ignores the enabled field of the body
PlainBranchAlwaysEnabled(env, result) ==
    LET calls1 == <<"repo", "permissions">>
    IN  IF env.permissions.raises
        THEN Propagated(calls1)
        ELSE IF env.permissions.status = 200
        THEN WorkflowPermissions(env,
               Update(result,
                 [enabled |-> TRUE,
                  allowed_actions |-> Get(env.permissions.json, "allowed_actions", "none"),
                  status |-> "enabled"]),
               calls1)
        ELSE WorkflowPermissions(env, result, calls1)

\* Lines 141-153: the branch of a repository that is not a fork
PlainBranch(env, result) ==
    LET calls1 == <<"repo", "permissions">>
    IN  IF env.permissions.raises
        THEN Propagated(calls1)
        ELSE IF env.permissions.status = 200
        THEN WorkflowPermissions(env,
               Update(result,
                 [enabled |-> Get(env.permissions.json, "enabled", FALSE),
                  allowed_actions |-> Get(env.permissions.json, "allowed_actions", "none"),
                  status |-> IF Get(env.permissions.json, "enabled", FALSE)
                             THEN "enabled" ELSE "disabled"]),
               calls1)
        ELSE WorkflowPermissions(env, result, calls1)

\* check_actions_enabled (lines 92-168).  env: the response to each of the
\* four endpoints.  Gives the returned dict, or that an exception propagated,
\* and the requests made.
check_actions_enabled(env) ==
    IF env.repo.raises \/ RaisesForStatus(env.repo)
    THEN Propagated(<<"repo">>)
    ELSE LET is_fork == Get(env.repo.json, "fork", FALSE)
             result == [is_fork |-> is_fork, fork_status |-> "N/A", enabled |-> FALSE,
                        allowed_actions |-> "none", status |-> "disabled"]
         IN  IF is_fork THEN ForkBranch(env, result) ELSE PlainBranch(env, result)

\* What GitHub may answer
EnabledBodies ==
    { [enabled |-> TRUE, allowed_actions |-> "all"],
      [enabled |-> FALSE, allowed_actions |-> "selected"],
      [enabled |-> TRUE],
      [allowed_actions |-> "all"],
      <<>> }

RepoResponses ==
    {NoResponse, Response(404, <<>>)}
        \cup {Response(200, j) : j \in {[fork |-> TRUE], [fork |-> FALSE], <<>>}}

PermissionsResponses ==
    {NoResponse, Response(403, <<>>), Response(404, <<>>)}
        \cup {Response(200, j) : j \in EnabledBodies}

ForkResponses ==
    {NoResponse, Response(404, <<>>)}
        \cup {Response(200, j) : j \in {[enabled |-> TRUE], [enabled |-> FALSE], <<>>}}

WorkflowResponses ==
    {NoResponse, Response(403, <<>>)}
        \cup {Response(200, j) :
                 j \in {[default_workflow_permissions |-> "read",
                         can_approve_pull_request_reviews |-> TRUE],
                        [default_workflow_permissions |-> "write"],
                        <<>>}}

Envs == [repo : RepoResponses, permissions : PermissionsResponses,
         fork : ForkResponses, workflow : WorkflowResponses]

InitPerm ==
    /\ IdleCli
    /\ IdleStale
    /\ IdleComment
    /\ IdleWorkflows
    /\ IdleRepos
    /\ IdleAudit
    /\ cae_env = <<>>
    /\ cae_out = <<>>

\* A call of check_actions_enabled
CheckActionsEnabled ==
    /\ cae_env = <<>>
    /\ \E env \in Envs :
          /\ cae_env' = env
          /\ cae_out' = check_actions_enabled(env)
    /\ UNCHANGED <<staleVars, commentVars, wfVars, reposVars, auditVars, cliVars>>

NextPerm == CheckActionsEnabled

SpecPerm == InitPerm /\ [][NextPerm]_vars

-----------------------------------------------------------------------------
(* Workflow file locator: GitHubActionsAudit.get_workflow_files *)

\* str.endswith(suffixes); a string is a sequence of tokens, a suffix one token
EndsWith(name, suffixes) == Len(name) >= 1 /\ name[Len(name)] \in suffixes

\* pattern in text: the pattern occurs as a contiguous part of the text
Contains(text, pattern) ==
    \E i \in 1..(Len(text) - Len(pattern) + 1) :
        SubSeq(text, i, i + Len(pattern) - 1) = pattern

\* Lines 70-76: the file is fetched, its JSON has a 'content' field, and that
\* decodes from base64 and then from UTF-8
Readable(file) ==
    /\ ~file.raises
    /\ ~RaisesForStatus(file)
    /\ "content" \in DOMAIN file.json
    /\ file.json.content.encoding = "ok"

\* Line 78: 'on:' in content or 'jobs:' in content
LooksLikeWorkflow(content) == Contains(content, <<"on:">>) \/ Contains(content, <<"jobs:">>)

\* A variant of VerifiedWorkflows whose loop ends at the first file that fails
RECURSIVE VerifiedUntilFailure(_)
VerifiedUntilFailure(workflows) ==
    IF workflows = <<>> THEN <<>>
    ELSE LET w == Head(workflows)
         IN  IF ~Readable(w.file) THEN <<>>
             ELSE IF LooksLikeWorkflow(w.file.json.content.text)
                  THEN <<[name |-> w.name, content |-> w.file.json.content.text]>>
                           \o VerifiedUntilFailure(Tail(workflows))
                  ELSE VerifiedUntilFailure(Tail(workflows))

\* Lines 67-86: each candidate is fetched and verified; an exception on one
\* file is caught and the loop continues
RECURSIVE VerifiedWorkflows(_)
VerifiedWorkflows(workflows) ==
    IF workflows = <<>> THEN <<>>
    ELSE LET w == Head(workflows)
         IN  IF Readable(w.file) /\ LooksLikeWorkflow(w.file.json.content.text)
             THEN <<[name |-> w.name, content |-> w.file.json.content.text]>>
                      \o VerifiedWorkflows(Tail(workflows))
             ELSE VerifiedWorkflows(Tail(workflows))

\* Lines 62-65: the entries whose name ends in .yml or .yaml
IsCandidate(content) == EndsWith(content.name, {".yml", ".yaml"})

Files(result, fetched) == [raised |-> FALSE, result |-> result, fetched |-> fetched]

\* A variant of get_workflow_files without the 404 test of lines 56-57:
\* raise_for_status raises on the 404 and nothing catches it
get_workflow_files_404Raises(dir) ==
    IF dir.raises THEN Files(<<>>, <<>>)
    ELSE IF dir.status = 404
    THEN [raised |-> TRUE, result |-> <<>>, fetched |-> <<>>]
    ELSE IF RaisesForStatus(dir) THEN Files(<<>>, <<>>)
    ELSE LET workflows == SelectSeq(dir.json, IsCandidate)
         IN  Files(VerifiedWorkflows(workflows),
                   [i \in 1..Len(workflows) |-> workflows[i].name])

\* get_workflow_files (lines 47-90).  dir: the response to the directory
\* listing; each entry of its JSON carries the response to its own fetch.
\* Gives the returned list and the names of the files fetched.
get_workflow_files(dir) ==
    IF dir.raises THEN Files(<<>>, <<>>)
    ELSE IF dir.status = 404 THEN Files(<<>>, <<>>)
    ELSE IF RaisesForStatus(dir) THEN Files(<<>>, <<>>)
    ELSE LET workflows == SelectSeq(dir.json, IsCandidate)
         IN  Files(VerifiedWorkflows(workflows),
                   [i \in 1..Len(workflows) |-> workflows[i].name])

\* What GitHub may answer
FileNames == { <<"ci", ".yml">>, <<"build", ".yaml">>, <<"deploy", ".txt">>,
               <<"old", ".yml", ".bak">> }

FileTexts == { <<"name: ci">>, <<"on:", "push">>, <<"jobs:", "build">>,
               <<"versi", "on:", "2">> }

FileResponses ==
    {NoResponse, Response(404, <<>>), Response(200, <<>>),
     Response(200, [content |-> [encoding |-> "not base64", text |-> <<>>]])}
        \cup {Response(200, [content |-> [encoding |-> "ok", text |-> t]]) :
                 t \in FileTexts}

Entries == [name : FileNames, file : FileResponses]

ListingResponses ==
    {NoResponse, Response(404, <<>>), Response(403, <<>>)}
        \cup {Response(200, j) : j \in SeqsUpTo(Entries, MaxFiles)}

InitWorkflows ==
    /\ IdleCli
    /\ IdleStale
    /\ IdleComment
    /\ IdlePerm
    /\ IdleRepos
    /\ IdleAudit
    /\ wf_listing = <<>>
    /\ wf_out = <<>>

\* A call of get_workflow_files
GetWorkflowFiles ==
    /\ wf_listing = <<>>
    /\ \E dir \in ListingResponses :
          /\ wf_listing' = dir
          /\ wf_out' = get_workflow_files(dir)
    /\ UNCHANGED <<staleVars, commentVars, permVars, reposVars, auditVars, cliVars>>

NextWorkflows == GetWorkflowFiles

SpecWorkflows == InitWorkflows /\ [][NextWorkflows]_vars

-----------------------------------------------------------------------------
(* Repository enumerator: GitHubActionsAudit.get_repositories *)

\* Line 43: page += 1
NextPage(p) == p + 1

\* A variant of StopsAt that takes a short page for the last one
StopsAtShortPage(batch) == Len(batch) < 2

\* Lines 39-40: if not batch: break
StopsAt(batch) == batch = <<>>

\* The repositories of the organization, by name
RepoNames == {"app", "lib"}

\* An entry of the listing, with the fields the audit reads
Repo(name) == [name |-> name, default_branch |-> "main", private |-> name = "app",
               archived |-> FALSE, disabled |-> FALSE, created_at |-> 0,
               updated_at |-> 0, html_url |-> <<"https://github.com/org/", name>>]

\* A non-empty page of the listing
Batches == {<<Repo(n)>> : n \in RepoNames}
               \cup {<<Repo(n), Repo(m)>> : n \in RepoNames, m \in RepoNames}

\* A response without a body: response.json() raises on it (line 38)
NoBody == "no body"

\* What GitHub may answer to the request of page p: the listing has at most
\* MaxPages non-empty pages
PageResponses(p) ==
    {NoResponse, Response(404, <<>>), Response(500, <<>>), Response(304, NoBody),
     Response(200, <<>>)}
        \cup (IF p <= MaxPages THEN {Response(200, b) : b \in Batches} ELSE {})

\* get_repositories up to the loop (lines 30-31)
InitRepos ==
    /\ IdleCli
    /\ IdleStale
    /\ IdleComment
    /\ IdlePerm
    /\ IdleWorkflows
    /\ IdleAudit
    /\ page = 1
    /\ repos = <<>>
    /\ gr_status = "paging"
    /\ gr_responses = <<>>
    /\ gr_requests = <<>>
    /\ gr_result = <<>>

\* One iteration of the loop of get_repositories (lines 32-43), and the
\* return after the break (line 45)
FetchPage ==
    /\ gr_status = "paging"
    /\ \E response \in PageResponses(page) :
          /\ gr_requests' = Append(gr_requests, page)
          /\ gr_responses' = Append(gr_responses, response)
          /\ IF response.raises \/ RaisesForStatus(response) \/ response.json = NoBody
             THEN /\ gr_status' = "raised"
                  /\ UNCHANGED <<page, repos, gr_result>>
             ELSE LET batch == response.json
                  IN  IF StopsAt(batch)
                      THEN /\ gr_status' = "returned"
                           /\ gr_result' = repos
                           /\ UNCHANGED <<page, repos>>
                      ELSE /\ repos' = repos \o batch
                           /\ page' = NextPage(page)
                           /\ UNCHANGED <<gr_status, gr_result>>
    /\ UNCHANGED <<staleVars, commentVars, permVars, wfVars, auditVars, cliVars>>

NextRepos == FetchPage

SpecRepos == InitRepos /\ [][NextRepos]_vars

\* Every request is answered or fails: the loop does not stop by itself
SpecReposFair == SpecRepos /\ WF_vars(FetchPage)

-----------------------------------------------------------------------------
(* Report loop: GitHubActionsAudit.process_repositories *)

\* Lines 204-222: the row of one repository.  workflow_files holds the names
\* that the code joins with ', ' (None when there is none: the empty sequence).
Row(repo, workflow_files, actions_status) ==
    [repository |-> repo.name,
     visibility |-> IF repo.private THEN "private" ELSE "public",
     archived |-> repo.archived,
     disabled |-> repo.disabled,
     fork |-> actions_status.is_fork,
     fork_workflow_status |-> actions_status.fork_status,
     created_at |-> repo.created_at,
     updated_at |-> repo.updated_at,
     actions_enabled |-> actions_status.enabled,
     actions_status |-> actions_status.status,
     allowed_actions |-> actions_status.allowed_actions,
     default_workflow_permissions |->
         Get(actions_status, "default_workflow_permissions", "N/A"),
     can_approve_pull_request_reviews |->
         Get(actions_status, "can_approve_pull_request_reviews", "N/A"),
     workflow_count |-> Len(workflow_files),
     workflow_files |-> [i \in 1..Len(workflow_files) |-> workflow_files[i].name],
     default_branch |-> repo.default_branch,
     url |-> repo.html_url]

\* check_actions_enabled was not reached
NotCalled == [raised |-> FALSE, result |-> <<>>, calls |-> <<>>]

\* What GitHub may answer during an audit
AuditListings ==
    { NoResponse, Response(404, <<>>),
      Response(200, <<[name |-> <<"ci", ".yml">>,
                       file |-> Response(200, [content |->
                                   [encoding |-> "ok", text |-> <<"on:", "push">>]])]>>) }

Env(repo, permissions, fork, workflow) ==
    [repo |-> repo, permissions |-> permissions, fork |-> fork, workflow |-> workflow]

AuditEnvs ==
    { Env(NoResponse, NoResponse, NoResponse, NoResponse),
      Env(Response(404, <<>>), NoResponse, NoResponse, NoResponse),
      Env(Response(200, [fork |-> FALSE]),
          Response(200, [enabled |-> TRUE, allowed_actions |-> "all"]),
          NoResponse,
          Response(200, [default_workflow_permissions |-> "read"])),
      Env(Response(200, [fork |-> FALSE]), Response(403, <<>>),
          NoResponse, NoResponse),
      Env(Response(200, [fork |-> FALSE]), NoResponse, NoResponse, NoResponse),
      Env(Response(200, [fork |-> TRUE]),
          Response(200, [enabled |-> TRUE]),
          Response(200, [enabled |-> FALSE]),
          NoResponse) }

\* A variant of Abandoned that hands the rows built so far to the caller
AbandonedKept(rows) == rows

\* An exception leaves process_repositories (no try in lines 188-222): the
\* rows built so far are never returned
Abandoned(rows) == <<>>

\* process_repositories up to the loop (line 186)
InitAudit ==
    /\ IdleCli
    /\ IdleStale
    /\ IdleComment
    /\ IdlePerm
    /\ IdleWorkflows
    /\ IdleRepos
    /\ repositories \in SeqsUpTo({Repo(n) : n \in RepoNames}, MaxRepos)
    /\ pos = 1
    /\ results = <<>>
    /\ audited = <<>>
    /\ pr_status = "processing"

\* One iteration of the loop of process_repositories (lines 188-222): the
\* workflow files, then the permissions, then the row.  Neither call is
\* inside a try: an exception leaves the function and the rows are lost.
ProcessRepository ==
    /\ pr_status = "processing"
    /\ pos <= Len(repositories)
    /\ \E dir \in AuditListings, env \in AuditEnvs :
          LET repo == repositories[pos]
              workflow_files == get_workflow_files(dir)
              actions_status == IF workflow_files.raised THEN NotCalled
                                ELSE check_actions_enabled(env)
          IN  /\ audited' = Append(audited, [listing |-> dir, wf |-> workflow_files,
                                             cae |-> actions_status])
              /\ IF workflow_files.raised \/ actions_status.raised
                 THEN /\ pr_status' = "raised"
                      /\ results' = Abandoned(results)
                      /\ pos' = pos
                 ELSE /\ results' = Append(results,
                                           Row(repo, workflow_files.result,
                                               actions_status.result))
                      /\ pos' = pos + 1
                      /\ pr_status' = pr_status
    /\ UNCHANGED repositories
    /\ UNCHANGED <<staleVars, commentVars, permVars, wfVars, reposVars, cliVars>>

\* Line 224: return pd.DataFrame(results)
ReturnResults ==
    /\ pr_status = "processing"
    /\ pos > Len(repositories)
    /\ pr_status' = "returned"
    /\ UNCHANGED <<repositories, pos, results, audited>>
    /\ UNCHANGED <<staleVars, commentVars, permVars, wfVars, reposVars, cliVars>>

NextAudit == ProcessRepository \/ ReturnResults

SpecAudit == InitAudit /\ [][NextAudit]_vars

-----------------------------------------------------------------------------
(* Claims about the stale policy, checked under SpecStale *)

\* Elapsed whole days of an item, as is_stale computes them
Elapsed(it) == now - it.updated_at

\* The entries of visited that are issues (not PRs) of a process_issues run
IssueVisits == {k \in 1..Len(visited) : kind = "issues" /\ ~visited[k].pre.pull_request}

CallNames(calls) == [k \in 1..Len(calls) |-> calls[k].name]

\* C1 as stated.  For every open non-PR issue visited by a run of
\* process_issues: (a) elapsed < days_before_stale: no label call, no close;
\* (b) elapsed >= days_before_stale and label absent: the label call is made
\* and no close; (c) label present and elapsed >= days_before_stale +
\* days_before_close: the close call is made; (d) label present and elapsed <
\* days_before_stale + days_before_close: nothing is called or changed.
C1_AsStated ==
    \A k \in IssueVisits :
        LET pre == visited[k].pre
            names == CallNames(visited[k].calls)
            has == stale_issue_label \in pre.labels
            e == Elapsed(pre)
        IN  /\ e < days_before_stale => names = <<>>
            /\ (e >= days_before_stale /\ ~has) => names = <<"add_to_labels">>
            /\ (has /\ e >= days_before_stale + days_before_close)
                   => names = <<"edit_closed">>
            /\ (has /\ e < days_before_stale + days_before_close)
                   => (names = <<>> /\ items[visited[k].n] = pre)

\* C1 amended.  Cases (c) and (d) apply only to an issue that is stale in
\* the first place (elapsed >= days_before_stale): (a) elapsed <
\* days_before_stale: nothing is called or changed, whatever the label and
\* days_before_close; (b) stale and label absent: add_to_labels is the only
\* call, the issue stays open, and it carries the label afterwards iff the
\* call did not raise; (c) stale, label present and elapsed >=
\* days_before_stale + days_before_close: the close call is the only call and
\* the issue is closed iff it did not raise; (d) stale, label present and
\* elapsed < days_before_stale + days_before_close: nothing is called or
\* changed.
C1_StalePolicyIssues ==
    \A k \in IssueVisits :
        LET pre == visited[k].pre
            post == items[visited[k].n]
            calls == visited[k].calls
            has == stale_issue_label \in pre.labels
            e == Elapsed(pre)
        IN  /\ e < days_before_stale => (calls = <<>> /\ post = pre)
            /\ (e >= days_before_stale /\ ~has) =>
                  /\ CallNames(calls) = <<"add_to_labels">>
                  /\ post.state = "open"
                  /\ post = IF calls[1].ok
                            THEN [pre EXCEPT !.labels = @ \cup {stale_issue_label}]
                            ELSE pre
            /\ (e >= days_before_stale /\ has
                   /\ e >= days_before_stale + days_before_close) =>
                  /\ CallNames(calls) = <<"edit_closed">>
                  /\ post = IF calls[1].ok THEN [pre EXCEPT !.state = "closed"] ELSE pre
            /\ (e >= days_before_stale /\ has
                   /\ e < days_before_stale + days_before_close) =>
                  (calls = <<>> /\ post = pre)

\* A run that labelled one issue already past the close threshold without
\* closing it, and closed another that carried the label
C1_Witness ==
    /\ run_status = "done"
    /\ \E k \in IssueVisits :
          /\ stale_issue_label \notin visited[k].pre.labels
          /\ days_before_close >= 0
          /\ Elapsed(visited[k].pre) >= days_before_stale + days_before_close
          /\ visited[k].calls = <<Call("add_to_labels", TRUE)>>
          /\ items[visited[k].n].state = "open"
    /\ \E k \in IssueVisits :
          /\ stale_issue_label \in visited[k].pre.labels
          /\ visited[k].calls = <<Call("edit_closed", TRUE)>>
          /\ items[visited[k].n].state = "closed"

\* C2.  In every run of process_pull_requests a PR carrying at least one
\* label of the exempt-label list gets no API call at all (no label, no
\* comment, no close) and is left as it was, whatever its age and the
\* thresholds.
C2_ExemptNeverTouched ==
    \A k \in 1..Len(visited) :
        (/\ kind = "prs"
         /\ \E l \in visited[k].pre.labels :
                \E i \in 1..Len(exempt_labels) : exempt_labels[i] = <<l>>)
        => (visited[k].calls = <<>> /\ items[visited[k].n] = visited[k].pre)

\* An exempt PR past the close threshold that also carries the stale label
\* was visited, under a two-element exempt list
C2_Witness ==
    /\ kind = "prs"
    /\ Len(exempt_labels) = 2
    /\ \E k \in 1..Len(visited) :
          /\ visited[k].pre.labels = {stale_issue_label, ExemptLabel}
          /\ InExempt(ExemptLabel)
          /\ Elapsed(visited[k].pre) >= days_before_stale
          /\ Elapsed(visited[k].pre) >= days_before_stale + days_before_close

AnyFailed(calls) == \E k \in 1..Len(calls) : ~calls[k].ok

\* C7.  A failure raised while processing one item is caught: the loop
\* visits every item of the listing, in order, whatever calls failed, and the
\* run returns normally; a run ends raised only when the listing itself
\* failed, before any item.
C7_BatchContinues ==
    /\ \A k \in 1..Len(visited) : k <= Len(listing) /\ visited[k].n = listing[k]
    /\ run_status = "running" =>
          /\ Len(visited) = idx - 1
          /\ ENABLED (ProcessIssue \/ ProcessPullRequest \/ FinishRun)
    /\ run_status = "done" => Len(visited) = Len(listing)
    /\ run_status = "raised" => (visited = <<>> /\ listing = <<>>)

\* A finished run in which one item's call failed and a later item was
\* still processed with a successful call
C7_Witness ==
    /\ run_status = "done"
    /\ \E j, k \in 1..Len(visited) :
          /\ j < k
          /\ AnyFailed(visited[j].calls)
          /\ visited[k].calls # <<>>
          /\ ~AnyFailed(visited[k].calls)

\* C14 as stated.  Marking a PR stale is label plus comment: a PR that did
\* not carry the stale label when a run of process_pull_requests visited it
\* and carries it afterwards has also received the stale comment in that
\* run, whatever API calls failed.
C14_LabelWithComment ==
    kind = "prs" =>
        \A k \in 1..Len(visited) :
            LET pre == visited[k].pre
                post == items[visited[k].n]
            IN  (stale_issue_label \notin pre.labels /\ stale_issue_label \in post.labels)
                    => post.comments > pre.comments

\* C15.  process_issues never adds a label to and never closes an item of
\* the issues listing that is a pull request, whatever its timestamp and
\* labels: no call is made for it and it is left as it was, in every run.
C15_PullRequestsSkipped ==
    kind = "issues" =>
        /\ \A k \in 1..Len(visited) :
              visited[k].pre.pull_request =>
                  (visited[k].calls = <<>> /\ items[visited[k].n] = visited[k].pre)
        /\ \A n \in 1..Len(items) :
              items[n].pull_request => (items[n].state = "open" /\ items[n].comments = 0)

\* A finished run of process_issues met a pull request that carries the
\* stale label and is past the close threshold, and an issue it closed
C15_Witness ==
    /\ kind = "issues"
    /\ run_status = "done"
    /\ \E k \in 1..Len(visited) :
          /\ visited[k].pre.pull_request
          /\ stale_issue_label \in visited[k].pre.labels
          /\ Elapsed(visited[k].pre) >= days_before_stale
          /\ Elapsed(visited[k].pre) >= days_before_stale + days_before_close
    /\ \E k \in IssueVisits : items[visited[k].n].state = "closed"

\* The policy applies to the item: an issue for process_issues, a PR without
\* exempt label for process_pull_requests
Subject(it) ==
    /\ kind = "issues" => ~it.pull_request
    /\ kind = "prs" => ~HasExemptLabel(it)

\* An open item past the close threshold, under days_before_close >= 0
Overdue(it) ==
    /\ Subject(it)
    /\ it.state = "open"
    /\ days_before_close >= 0
    /\ Elapsed(it) >= days_before_stale + days_before_close

\* The run-by-run part of C16: a run labels an overdue item that is fresh and
\* leaves it open, closes an overdue item that carries the label, and closes
\* no item that did not carry the label when the run met it
C16_TwoRuns ==
    \A k \in 1..Len(visited) :
        LET pre == visited[k].pre
            post == items[visited[k].n]
        IN  /\ (Overdue(pre) /\ stale_issue_label \notin pre.labels) =>
                  (stale_issue_label \in post.labels /\ post.state = "open")
            /\ (Overdue(pre) /\ stale_issue_label \in pre.labels) =>
                  post.state = "closed"
            /\ stale_issue_label \notin pre.labels => post.state = "open"

\* C16.  Under repeated runs without API failures, with fixed thresholds,
\* days_before_close >= 0 and unchanged timestamps, an open non-exempt item
\* whose elapsed days are >= days_before_stale + days_before_close is
\* eventually closed: labelled in the first run if fresh, closed in the
\* next, and never closed in a run at whose start it did not carry the label.
C16_EventuallyClosed ==
    /\ []C16_TwoRuns
    /\ \A n \in 1..MaxItems :
          (n <= Len(items) /\ Overdue(items[n])) ~>
              (n <= Len(items) /\ items[n].state = "closed")

\* A PR that an earlier run labelled and commented is closed by this run
C16_Witness ==
    /\ kind = "prs"
    /\ run_status = "done"
    /\ \E k \in 1..Len(visited) :
          /\ Overdue(visited[k].pre)
          /\ stale_issue_label \in visited[k].pre.labels
          /\ visited[k].pre.comments = 1
          /\ items[visited[k].n].state = "closed"

-----------------------------------------------------------------------------
(* Claims about the comment utilities, checked under SpecComment *)

\* C3.  post_pr_comment called with a comment_id that matches no existing
\* comment of the repository raises an error (it does not return normally)
\* and creates no new comment.
C3_UnknownCommentIdFails ==
    (/\ c_args.op = "post_pr_comment"
     /\ c_args.comment_id # {}
     /\ Matching(c_pre, c_args.comment_id) = {})
    => (Raised(c_result) /\ comment_store = c_pre)

-----------------------------------------------------------------------------
(* Claims about check_actions_enabled, checked under SpecPerm *)

CaeCalled == cae_env # <<>>

\* The repository-metadata fetch succeeded and says fork / not fork
IsFork == CaeCalled /\ ~cae_env.repo.raises /\ cae_env.repo.status = 200
             /\ "fork" \in DOMAIN cae_env.repo.json /\ cae_env.repo.json.fork

NotFork == CaeCalled /\ ~cae_env.repo.raises /\ cae_env.repo.status = 200
              /\ ("fork" \in DOMAIN cae_env.repo.json => ~cae_env.repo.json.fork)

\* An endpoint answered 200 with enabled=true
Says200Enabled(r) ==
    ~r.raises /\ r.status = 200 /\ "enabled" \in DOMAIN r.json /\ r.json.enabled

\* An endpoint answered with a status other than 200
Non200(r) == ~r.raises /\ r.status # 200

\* C4.  For a fork, check_actions_enabled returns enabled=true iff the
\* repository-level permissions call and the fork-pull-request call both
\* answer 200 with enabled=true; for every other combination of status codes
\* and enabled fields it returns enabled=false.
C4_ForkEnabledIffBoth ==
    (IsFork /\ ~cae_out.raised) =>
        /\ cae_out.result.enabled \in BOOLEAN
        /\ cae_out.result.enabled <=>
              (Says200Enabled(cae_env.permissions) /\ Says200Enabled(cae_env.fork))

\* A fork for which both calls said enabled and the call returned enabled
C4_Witness ==
    /\ IsFork
    /\ Says200Enabled(cae_env.permissions)
    /\ Says200Enabled(cae_env.fork)
    /\ ~cae_out.raised
    /\ cae_out.result.enabled
    /\ cae_out.result.status = "enabled"

\* C5.  For a fork whose repository-level permissions call answers a
\* non-200 status, check_actions_enabled returns enabled=false,
\* status='disabled' and fork_status='workflows disabled (fork)', and makes
\* neither the fork-pull-request call nor the default-workflow-permissions
\* call.
C5_ForkPermissionsUnavailable ==
    (IsFork /\ Non200(cae_env.permissions)) =>
        /\ ~cae_out.raised
        /\ cae_out.result.enabled = FALSE
        /\ cae_out.result.status = "disabled"
        /\ cae_out.result.fork_status = "workflows disabled (fork)"
        /\ cae_out.calls = <<"repo", "permissions">>

\* C6.  For a repository that is not a fork: when the permissions call
\* answers 200 the result's enabled is the response's enabled field (false
\* when absent), allowed_actions is the response's field ('none' when
\* absent) and fork_status stays 'N/A'; when it answers a non-200 status the
\* result is enabled=false, allowed_actions='none', status='disabled' and
\* nothing is raised.
C6_PlainRepository ==
    /\ (NotFork /\ Non200(cae_env.permissions)) =>
          /\ ~cae_out.raised
          /\ cae_out.result = [is_fork |-> FALSE, fork_status |-> "N/A",
                                enabled |-> FALSE, allowed_actions |-> "none",
                                status |-> "disabled"]
    /\ (NotFork /\ ~cae_env.permissions.raises /\ cae_env.permissions.status = 200
           /\ ~cae_out.raised) =>
          LET json == cae_env.permissions.json
          IN  /\ cae_out.result.enabled =
                    (IF "enabled" \in DOMAIN json THEN json.enabled ELSE FALSE)
              /\ cae_out.result.allowed_actions =
                    (IF "allowed_actions" \in DOMAIN json
                     THEN json.allowed_actions ELSE "none")
              /\ cae_out.result.fork_status = "N/A"
              /\ cae_out.result.is_fork = FALSE

\* A non-fork whose 200 response has no enabled field but an allowed_actions
\* field was resolved to enabled=false with that allowed_actions
C6_Witness ==
    /\ NotFork
    /\ ~cae_env.permissions.raises
    /\ cae_env.permissions.status = 200
    /\ DOMAIN cae_env.permissions.json = {"allowed_actions"}
    /\ ~cae_out.raised
    /\ cae_out.result.enabled = FALSE
    /\ cae_out.result.allowed_actions = "all"

\* The request to an endpoint was made by the last call
Made(endpoint) == \E i \in 1..Len(cae_out.calls) : cae_out.calls[i] = endpoint

ForkCall == "permissions/workflows/fork-pull-requests"
WorkflowCall == "permissions/workflow"

\* The response to a request, by the name of the request
Answer(endpoint) ==
    CASE endpoint = "repo" -> cae_env.repo
      [] endpoint = "permissions" -> cae_env.permissions
      [] endpoint = ForkCall -> cae_env.fork
      [] OTHER -> cae_env.workflow

ReportsDisabled ==
    /\ ~cae_out.raised
    /\ cae_out.result.enabled = FALSE
    /\ cae_out.result.status = "disabled"

\* C12 as stated.  A non-200 response on an optional sub-call (the
\* fork-pull-request call, the default-workflow-permissions call) never
\* raises and leaves enabled=false and status='disabled'; only a failure of
\* the repository-metadata fetch or a transport-level failure of the primary
\* permissions fetch propagates.
C12_AsStated ==
    CaeCalled =>
        /\ (Made(ForkCall) /\ Non200(cae_env.fork)) => ReportsDisabled
        /\ (Made(WorkflowCall) /\ Non200(cae_env.workflow)) => ReportsDisabled
        /\ cae_out.raised =>
              \/ cae_out.calls = <<"repo">>
              \/ cae_out.calls = <<"repo", "permissions">> /\ cae_env.permissions.raises

\* C12 amended.  A non-200 response on any request after the
\* repository-metadata fetch never raises.  On the primary permissions call
\* or the fork-pull-request call it leaves enabled=false and
\* status='disabled'; on the default-workflow-permissions call, which is made
\* only when the result is enabled, it leaves enabled=true and
\* status='enabled' and the two workflow-permission fields absent.  What
\* propagates is a failure (transport or 4xx/5xx) of the repository-metadata
\* fetch and a transport-level failure of any later request, and nothing
\* else.
C12_OptionalCallsDegrade ==
    CaeCalled =>
        /\ (Made("permissions") /\ Non200(cae_env.permissions)) => ReportsDisabled
        /\ (Made(ForkCall) /\ Non200(cae_env.fork)) => ReportsDisabled
        /\ (Made(WorkflowCall) /\ Non200(cae_env.workflow)) =>
              /\ ~cae_out.raised
              /\ cae_out.result.enabled = TRUE
              /\ cae_out.result.status = "enabled"
              /\ DOMAIN cae_out.result =
                    {"is_fork", "fork_status", "enabled", "allowed_actions", "status"}
        /\ cae_out.raised <=>
              LET last == cae_out.calls[Len(cae_out.calls)]
              IN  \/ Answer(last).raises
                  \/ last = "repo" /\ RaisesForStatus(cae_env.repo)

\* The permissions are enabled and the default-workflow-permissions call
\* answers 403: the result is returned, enabled
C12_Witness ==
    /\ CaeCalled
    /\ Made(WorkflowCall)
    /\ Non200(cae_env.workflow)
    /\ ~cae_out.raised
    /\ cae_out.result.enabled

-----------------------------------------------------------------------------
(* Claims about get_workflow_files, checked under SpecWorkflows *)

WfCalled == wf_listing # <<>>

\* The listing was answered 200 with the directory entries
Listed == WfCalled /\ ~wf_listing.raises /\ wf_listing.status = 200

\* The conditions of C8 on one directory entry
GoodEntry(e) ==
    /\ e.name[Len(e.name)] \in {".yml", ".yaml"}
    /\ ~e.file.raises /\ e.file.status = 200
    /\ "content" \in DOMAIN e.file.json
    /\ e.file.json.content.encoding = "ok"
    /\ \E i \in 1..Len(e.file.json.content.text) :
           e.file.json.content.text[i] \in {"on:", "jobs:"}

\* The k-th smallest element of a set of numbers
Kth(S, k) == CHOOSE i \in S : Cardinality({j \in S : j < i}) = k - 1

\* C8.  get_workflow_files returns exactly the directory entries, in listing
\* order, whose name ends in .yml or .yaml, whose fetch and decode succeed and
\* whose text contains 'on:' or 'jobs:'; any other entry is left out, and a
\* failure on one file leaves out only that file.
C8_ExactlyVerifiedWorkflows ==
    Listed =>
        LET entries == wf_listing.json
            good == {i \in 1..Len(entries) : GoodEntry(entries[i])}
        IN  /\ ~wf_out.raised
            /\ Len(wf_out.result) = Cardinality(good)
            /\ \A k \in 1..Len(wf_out.result) :
                  /\ wf_out.result[k].name = entries[Kth(good, k)].name
                  /\ wf_out.result[k].content =
                         entries[Kth(good, k)].file.json.content.text

\* A listing whose first file cannot be decoded and whose second is a
\* workflow: the second is returned
C8_Witness ==
    /\ Listed
    /\ Len(wf_listing.json) = 2
    /\ wf_listing.json[1].name = <<"ci", ".yml">>
    /\ wf_listing.json[1].file.status = 200
    /\ "content" \in DOMAIN wf_listing.json[1].file.json
    /\ wf_listing.json[1].file.json.content.encoding # "ok"
    /\ wf_out.result = <<[name |-> <<"build", ".yaml">>, content |-> <<"jobs:", "build">>]>>

-----------------------------------------------------------------------------
(* Claims about the command line, checked under SpecCli *)

CliRan == cli_cmd.cmd # "none"

Has(o, field) == field \in DOMAIN o

CommentCommand == cli_cmd.cmd \in {"post-pr-comment", "delete-pr-comment"}

\* The command names a comment that the repository does not have
UnknownCommentId ==
    /\ CommentCommand
    /\ Truthy(cli_cmd.comment_id)
    /\ Matching(c_pre, cli_cmd.comment_id) = {}

\* The command did what it is for
TookEffect ==
    CASE cli_cmd.cmd = "post-pr-comment" ->
           IF Matching(c_pre, cli_cmd.comment_id) # {}
           THEN \A id \in Matching(c_pre, cli_cmd.comment_id) :
                   id \in DOMAIN comment_store
                       /\ comment_store[id].body = cli_cmd.comment_body
           ELSE \E id \in DOMAIN comment_store \ DOMAIN c_pre :
                   comment_store[id] = [pr |-> cli_cmd.pr_number,
                                        body |-> cli_cmd.comment_body]
      [] cli_cmd.cmd = "delete-pr-comment" ->
           /\ Matching(c_pre, cli_cmd.comment_id) # {}
           /\ Matching(comment_store, cli_cmd.comment_id) = {}
      [] cli_cmd.cmd \in {"create-issue-from-string", "create-issue-from-file"} ->
           cli_calls = <<"get_repo", "create_issue">> /\ cli_out = "created"
      [] OTHER -> cli_out = "token"

\* C11 as stated.  A command exits with a non-zero code whenever its
\* operation ends in an error -- a missing token, a comment id that does not
\* exist, a repository or PR that cannot be fetched, an App that is not
\* installed -- and no command exits with 0 when its operation did not take
\* effect.
C11_ErrorsExitNonZero ==
    CliRan =>
        /\ (Has(cli_cmd, "github_token") /\ cli_cmd.github_token = "") => cli_exit # 0
        /\ UnknownCommentId => cli_exit # 0
        /\ (Has(cli_cmd, "repo") /\ cli_cmd.repo # TheRepo) => cli_exit # 0
        /\ (Has(cli_cmd, "pr_number") /\ cli_cmd.pr_number # ThePull) => cli_exit # 0
        /\ (Has(cli_cmd, "installed") /\ ~cli_cmd.installed) => cli_exit # 0
        /\ Raised(c_result) => cli_exit # 0
        /\ cli_exit = 0 => TookEffect

\* The command was given a missing or invalid required input
InvalidInput ==
    \/ Has(cli_cmd, "github_token") /\ cli_cmd.github_token = ""
    \/ Has(cli_cmd, "file") /\ cli_cmd.file.exists /\ cli_cmd.file.text = ""
    \/ Has(cli_cmd, "comment_body") /\ cli_cmd.comment_body = ""
    \/ Has(cli_cmd, "issue_title") /\ cli_cmd.issue_title = ""
    \/ Has(cli_cmd, "repo") /\ Len(SplitRepo(cli_cmd.repo)) # 2

\* C13 as stated.  A missing or invalid required input (empty token, empty
\* issue file, empty comment body or title, a repo string that is not
\* owner/repo) is rejected with an error before any call to the GitHub API.
C13_InvalidInputRejectedFirst ==
    (CliRan /\ InvalidInput) => (cli_exit # 0 /\ cli_calls = <<>>)

-----------------------------------------------------------------------------
(* Claims about process_repositories, checked under SpecAudit *)

\* The workflows-directory listing of the k-th repository answered 404
Listing404(k) == ~audited[k].listing.raises /\ audited[k].listing.status = 404

MetadataFetchFailed(k) ==
    audited[k].cae.raised /\ audited[k].cae.calls = <<"repo">>

\* One row per input repository, in input order
OneRowEach ==
    /\ Len(results) = Len(repositories)
    /\ \A i \in 1..Len(repositories) : results[i].repository = repositories[i].name

\* C17 as stated.  If the repository-metadata fetch inside
\* check_actions_enabled fails for one repository, the error propagates out
\* of process_repositories and no row is returned for any repository; when
\* no such failure occurs the result has exactly one row per input
\* repository, in input order.
C17_AsStated ==
    /\ (\E k \in 1..Len(audited) : MetadataFetchFailed(k)) =>
          (pr_status = "raised" /\ results = <<>>)
    /\ (pr_status # "processing" /\ \A k \in 1..Len(audited) : ~MetadataFetchFailed(k)) =>
          (pr_status = "returned" /\ OneRowEach)

\* C17 amended.  process_repositories isolates no failure of
\* check_actions_enabled: if the repository-metadata fetch fails, or any
\* later request of check_actions_enabled fails at transport level, for one
\* repository, the error propagates out of process_repositories at that
\* repository and no row is returned for any repository, those already
\* processed included; when no call of check_actions_enabled raises the
\* result has exactly one row per input repository, in input order.
C17_NoFailureIsolation ==
    /\ (\E k \in 1..Len(audited) : audited[k].cae.raised) <=> pr_status = "raised"
    /\ \A k \in 1..Len(audited) :
          /\ MetadataFetchFailed(k) => pr_status = "raised"
          /\ audited[k].cae.raised => k = Len(audited)
    /\ pr_status = "raised" => results = <<>>
    /\ pr_status = "returned" => (OneRowEach /\ Len(audited) = Len(repositories))

\* The first repository was processed and the metadata fetch of the second
\* failed: the run raised and the row of the first is lost
C17_Witness ==
    /\ pr_status = "raised"
    /\ Len(audited) = 2
    /\ ~audited[1].cae.raised
    /\ audited[1].cae.calls # <<>>
    /\ MetadataFetchFailed(2)
    /\ results = <<>>

-----------------------------------------------------------------------------
(* Claims about get_repositories, checked under SpecReposFair *)

RECURSIVE Concat(_)
Concat(batches) ==
    IF batches = <<>> THEN <<>> ELSE Head(batches) \o Concat(Tail(batches))

\* A response that carries a page: a 2xx
IsPage(r) == ~r.raises /\ r.status \in 200..299

\* The safety part of C10
C10_Paging ==
    LET n == Len(gr_responses)
        pages == [i \in 1..(n - 1) |-> gr_responses[i].json]
    IN  \* pages 1, 2, 3, ... in order, each requested once
        /\ gr_requests = [i \in 1..n |-> i]
        \* every response but the last was a non-empty page
        /\ \A i \in 1..(n - 1) : IsPage(gr_responses[i]) /\ gr_responses[i].json # <<>>
        /\ gr_status = "paging" =>
              (n >= 1 => (IsPage(gr_responses[n]) /\ gr_responses[n].json # <<>>))
        \* it returns at the first empty page, with the pages before it
        /\ gr_status = "returned" =>
              /\ IsPage(gr_responses[n]) /\ gr_responses[n].json = <<>>
              /\ gr_result = Concat(pages)
        \* a response that is no 2xx raises: nothing is returned
        /\ (n >= 1 /\ ~IsPage(gr_responses[n])) =>
              (gr_status = "raised" /\ gr_result = <<>>)
        /\ gr_status = "raised" => (n >= 1 /\ ~IsPage(gr_responses[n]))

\* C10.  get_repositories requests pages 1, 2, 3, ... in order, stops at
\* the first empty page and returns the concatenation, in page order, of the
\* non-empty pages before it; it terminates when the API eventually returns
\* an empty page; a non-2xx response makes it raise instead of returning a
\* partial list, and the request is not retried.
C10_GetRepositories == []C10_Paging /\ <>(gr_status \in {"returned", "raised"})

\* Two non-empty pages and then an empty one: three requests, the
\* repositories of both pages returned in order
C10_Witness ==
    /\ gr_status = "returned"
    /\ gr_requests = <<1, 2, 3>>
    /\ Len(gr_responses[1].json) = 2
    /\ gr_result = gr_responses[1].json \o gr_responses[2].json
    /\ Len(gr_result) >= 3

=============================================================================
